---- MODULE Spec2Model ----
(***************************************************************************)
(* The analytics-event service of golang-postgres-analytics: the generated *)
(* discriminated-union codec of internal/event (Event.MarshalJSON and      *)
(* Event.UnmarshalJSON) and the two HTTP handlers of                       *)
(* cmd/golang-postgres-analytics/main.go (createEvent, getLTV) over the    *)
(* "events" table.                                                         *)
(*                                                                         *)
(* Abstractions.  A byte buffer is the JSON document it spells (or the     *)
(* fact that it spells none) plus its layout; a JSON object is the         *)
(* sequence of its members in document order.  A float64 revenue is an     *)
(* integer count of units of 1e-7, so that sums are exact and the six      *)
(* decimals kept by the "%f" verb are visible.  A time.Time is its instant *)
(* and its zone offset.                                                    *)
(***************************************************************************)
EXTENDS Integers, Sequences, FiniteSets, TLC

VARIABLES
    ev,         \* codec: the Event value (receiver of MarshalJSON, target of UnmarshalJSON)
    buf,        \* codec: the bytes produced by the last successful MarshalJSON
    src,        \* codec: the Event that buf was marshalled from
    cout,       \* codec: what the last codec call was given and what it returned
    events,     \* server: the rows of the events table (jsonb payloads)
    posted,     \* server: request bodies answered 200 with their echo, in order
    req,        \* server: the last request and what its environment did
    calls,      \* server: the calls the last handler made, in order
    resp,       \* server: the response the client observed for the last request
    conns       \* server: the requests in flight, one handler goroutine each

vars == <<ev, buf, src, cout, events, posted, req, calls, resp, conns>>
codecVars == <<ev, buf, src, cout>>
serverVars == <<events, posted, req, calls, resp, conns>>

\* The events table holds at most MaxEvents rows in the model.
MaxEvents == 2

\* At most MaxInFlight requests are served at the same time in the model.
MaxInFlight == 2

(***************************************************************************)
(* JSON documents and byte buffers                                         *)
(***************************************************************************)
JStr(s) == [k |-> "string", s |-> s, n |-> 0]
JNum(n) == [k |-> "number", s |-> "", n |-> n]
JNull == [k |-> "null", s |-> "", n |-> 0]
Member(key, val) == [key |-> key, val |-> val]

JObject(members) == [t |-> "object", members |-> members]
JArrayDoc == [t |-> "array", members |-> <<>>]
JNullDoc == [t |-> "null", members |-> <<>>]
NoDoc == [t |-> "none", members |-> <<>>]

\* layout: "compact" as json.Marshal writes, "spaced" as a client or jsonb's
\* text output writes.
Bytes(doc, layout) == [wf |-> TRUE, doc |-> doc, layout |-> layout]
Malformed == [wf |-> FALSE, doc |-> NoDoc, layout |-> "compact"]
NoBytes == [wf |-> FALSE, doc |-> NoDoc, layout |-> "nil"]

Keys(members) == {members[i].key : i \in 1..Len(members)}

\* The value of a key in an object; the last member wins, as in encoding/json
\* and in jsonb.
Lookup(members, key) ==
    LET is == {i \in 1..Len(members) : members[i].key = key}
    IN  members[CHOOSE i \in is : \A j \in is : j <= i].val

(***************************************************************************)
(* time.Time and RFC 3339                                                  *)
(***************************************************************************)
ZeroTime == [sec |-> 0, off |-> 0]
T1utc == [sec |-> 1, off |-> 0]
T1plus2 == [sec |-> 1, off |-> 2]
TimeY10K == [sec |-> 2, off |-> 0]

\* time.Time.MarshalJSON refuses a year outside [0,9999].
YearInRange(t) == t # TimeY10K

FormatRFC3339(t) ==
    CASE t = ZeroTime -> "0001-01-01T00:00:00Z"
      [] t = T1utc -> "2019-09-12T03:45:24Z"
      [] t = T1plus2 -> "2019-09-12T05:45:24+02:00"
      [] OTHER -> "10000-01-01T00:00:00Z"

ParseRFC3339(s) ==
    CASE s = "0001-01-01T00:00:00Z" -> [ok |-> TRUE, t |-> ZeroTime]
      [] s = "2019-09-12T03:45:24Z" -> [ok |-> TRUE, t |-> T1utc]
      [] s = "2019-09-12T03:45:24+00:00" -> [ok |-> TRUE, t |-> T1utc]
      [] s = "2019-09-12T05:45:24+02:00" -> [ok |-> TRUE, t |-> T1plus2]
      [] OTHER -> [ok |-> FALSE, t |-> ZeroTime]

(***************************************************************************)
(* internal/event: the generated types                                     *)
(***************************************************************************)
ErrUnknownVariant == "event: unknown discriminator tag value"
ErrSyntax == "json: syntax error"
ErrUnmarshalType == "json: cannot unmarshal into Go value"
ErrTimeParse == "parsing time: cannot parse"
ErrTimeYear == "Time.MarshalJSON: year outside of range [0,9999]"

EventTypePageViewed == "Page Viewed"
EventTypeOrderCompleted == "Order Completed"
EventTypeHeartbeat == "Heartbeat"

\* The fields of the variant structs, in declaration order, with their json tags.
EventPageViewedFields ==
    << [go |-> "Timestamp", json |-> "timestamp", kind |-> "time"],
       [go |-> "Url", json |-> "url", kind |-> "string"],
       [go |-> "UserId", json |-> "userId", kind |-> "string"] >>

EventOrderCompletedFields ==
    << [go |-> "Timestamp", json |-> "timestamp", kind |-> "time"],
       [go |-> "UserId", json |-> "userId", kind |-> "string"],
       [go |-> "Revenue", json |-> "revenue", kind |-> "float64"] >>

EventHeartbeatFields ==
    << [go |-> "Timestamp", json |-> "timestamp", kind |-> "time"],
       [go |-> "UserId", json |-> "userId", kind |-> "string"] >>

ZeroPageViewed == [Timestamp |-> ZeroTime, Url |-> "", UserId |-> ""]
ZeroOrderCompleted == [Timestamp |-> ZeroTime, UserId |-> "", Revenue |-> 0]
ZeroHeartbeat == [Timestamp |-> ZeroTime, UserId |-> ""]

\* var e Event
ZeroEvent ==
    [Type |-> "",
     EventPageViewed |-> ZeroPageViewed,
     EventOrderCompleted |-> ZeroOrderCompleted,
     EventHeartbeat |-> ZeroHeartbeat]

(***************************************************************************)
(* encoding/json as the codec uses it                                      *)
(***************************************************************************)
\* One struct field to its JSON value.
EncodeField(kind, x) ==
    CASE kind = "time" ->
            IF YearInRange(x) THEN [err |-> "", val |-> JStr(FormatRFC3339(x))]
            ELSE [err |-> ErrTimeYear, val |-> JNull]
      [] kind = "string" -> [err |-> "", val |-> JStr(x)]
      [] OTHER -> [err |-> "", val |-> JNum(x)]

RECURSIVE EncodeFields(_, _, _)
EncodeFields(s, fields, i) ==
    IF i > Len(fields) THEN [err |-> "", members |-> <<>>]
    ELSE LET e == EncodeField(fields[i].kind, s[fields[i].go])
             rest == EncodeFields(s, fields, i + 1)
         IN  IF e.err # "" THEN [err |-> e.err, members |-> <<>>]
             ELSE IF rest.err # "" THEN rest
             ELSE [err |-> "", members |-> <<Member(fields[i].json, e.val)>> \o rest.members]

\* json.Marshal(struct { Tag string `json:"type"`; <variant> }{Tag: tag, <variant>: s})
JSONMarshalTagged(tag, s, fields) ==
    LET e == EncodeFields(s, fields, 1)
    IN  IF e.err # "" THEN [bytes |-> NoBytes, err |-> e.err]
        ELSE [bytes |-> Bytes(JObject(<<Member("type", JStr(tag))>> \o e.members), "compact"),
              err |-> ""]

\* json.Unmarshal(b, &obj) with obj a map[string]interface{}
JSONUnmarshalMap(b) ==
    IF ~b.wf THEN [err |-> ErrSyntax, members |-> <<>>]
    ELSE IF b.doc.t = "object" THEN [err |-> "", members |-> b.doc.members]
    ELSE IF b.doc.t = "null" THEN [err |-> "", members |-> <<>>]
    ELSE [err |-> ErrUnmarshalType, members |-> <<>>]

\* obj[key].(string)
TypeAssertString(members, key) ==
    IF key \in Keys(members) /\ Lookup(members, key).k = "string"
    THEN [ok |-> TRUE, s |-> Lookup(members, key).s]
    ELSE [ok |-> FALSE, s |-> ""]

\* encoding/json matches an object key to a struct field by its json tag, exactly
\* or else ignoring case.
FoldKey(key) ==
    CASE key = "Revenue" -> "revenue"
      [] key = "Type" -> "type"
      [] OTHER -> key

FieldFor(fields, key) == {i \in 1..Len(fields) : fields[i].json = FoldKey(key)}

\* One member of the document into the struct: a JSON null is skipped, a value of
\* the wrong JSON type is recorded and decoding goes on, an error of
\* time.Time.UnmarshalJSON ends the decoding at once.
DecodeMember(st, fields, m) ==
    IF st.abort \/ FieldFor(fields, m.key) = {} \/ m.val.k = "null" THEN st
    ELSE LET f == fields[CHOOSE i \in FieldFor(fields, m.key) : TRUE]
         IN  CASE f.kind = "time" ->
                    IF m.val.k = "string" /\ ParseRFC3339(m.val.s).ok
                    THEN [st EXCEPT !.v = [@ EXCEPT ![f.go] = ParseRFC3339(m.val.s).t]]
                    ELSE [st EXCEPT !.err = ErrTimeParse, !.abort = TRUE]
               [] f.kind = "string" ->
                    IF m.val.k = "string"
                    THEN [st EXCEPT !.v = [@ EXCEPT ![f.go] = m.val.s]]
                    ELSE [st EXCEPT !.err = IF @ = "" THEN ErrUnmarshalType ELSE @]
               [] OTHER ->
                    IF m.val.k = "number"
                    THEN [st EXCEPT !.v = [@ EXCEPT ![f.go] = m.val.n]]
                    ELSE [st EXCEPT !.err = IF @ = "" THEN ErrUnmarshalType ELSE @]

RECURSIVE DecodeMembers(_, _, _, _)
DecodeMembers(st, fields, members, i) ==
    IF i > Len(members) THEN st
    ELSE DecodeMembers(DecodeMember(st, fields, members[i]), fields, members, i + 1)

\* json.Unmarshal(b, &s) with s one of the variant structs
JSONUnmarshalStruct(b, s, fields) ==
    IF ~b.wf THEN [v |-> s, err |-> ErrSyntax]
    ELSE IF b.doc.t = "null" THEN [v |-> s, err |-> ""]
    ELSE IF b.doc.t # "object" THEN [v |-> s, err |-> ErrUnmarshalType]
    ELSE LET st == DecodeMembers([v |-> s, err |-> "", abort |-> FALSE],
                                 fields, b.doc.members, 1)
         IN  [v |-> st.v, err |-> st.err]

(***************************************************************************)
(* Event.MarshalJSON and Event.UnmarshalJSON                               *)
(***************************************************************************)
\* Mutant: the "Page Viewed" case marshals the heartbeat struct.
MarshalJSON_WrongVariant(v) ==
    CASE v.Type = "Page Viewed" ->
            JSONMarshalTagged("Page Viewed", v.EventHeartbeat, EventHeartbeatFields)
      [] v.Type = "Order Completed" ->
            JSONMarshalTagged("Order Completed", v.EventOrderCompleted, EventOrderCompletedFields)
      [] v.Type = "Heartbeat" ->
            JSONMarshalTagged("Heartbeat", v.EventHeartbeat, EventHeartbeatFields)
      [] OTHER -> [bytes |-> NoBytes, err |-> ErrUnknownVariant]

\* Mutant: an unknown tag is marshalled as a heartbeat instead of failing.
MarshalJSON_NoDefault(v) ==
    CASE v.Type = "Page Viewed" ->
            JSONMarshalTagged("Page Viewed", v.EventPageViewed, EventPageViewedFields)
      [] v.Type = "Order Completed" ->
            JSONMarshalTagged("Order Completed", v.EventOrderCompleted, EventOrderCompletedFields)
      [] OTHER ->
            JSONMarshalTagged("Heartbeat", v.EventHeartbeat, EventHeartbeatFields)

\* Mutant: the "Heartbeat" case takes the fields of the order-completed struct.
MarshalJSON_OtherStruct(v) ==
    CASE v.Type = "Page Viewed" ->
            JSONMarshalTagged("Page Viewed", v.EventPageViewed, EventPageViewedFields)
      [] v.Type = "Order Completed" ->
            JSONMarshalTagged("Order Completed", v.EventOrderCompleted, EventOrderCompletedFields)
      [] v.Type = "Heartbeat" ->
            JSONMarshalTagged("Heartbeat", v.EventOrderCompleted, EventHeartbeatFields)
      [] OTHER -> [bytes |-> NoBytes, err |-> ErrUnknownVariant]

MarshalJSON(v) ==
    CASE v.Type = "Page Viewed" ->
            JSONMarshalTagged("Page Viewed", v.EventPageViewed, EventPageViewedFields)
      [] v.Type = "Order Completed" ->
            JSONMarshalTagged("Order Completed", v.EventOrderCompleted, EventOrderCompletedFields)
      [] v.Type = "Heartbeat" ->
            JSONMarshalTagged("Heartbeat", v.EventHeartbeat, EventHeartbeatFields)
      [] OTHER -> [bytes |-> NoBytes, err |-> ErrUnknownVariant]

\* Mutant: the switch has no case for "Order Completed".
UnmarshalJSON_MissingCase(v, b) ==
    LET obj == JSONUnmarshalMap(b)
        tag == TypeAssertString(obj.members, "type")
        v1 == [v EXCEPT !.Type = tag.s]
    IN  IF obj.err # "" THEN [v |-> v, err |-> obj.err]
        ELSE IF ~tag.ok THEN [v |-> v, err |-> ErrUnknownVariant]
        ELSE CASE tag.s = "Page Viewed" ->
                    LET d == JSONUnmarshalStruct(b, v1.EventPageViewed, EventPageViewedFields)
                    IN  [v |-> [v1 EXCEPT !.EventPageViewed = d.v], err |-> d.err]
               [] tag.s = "Heartbeat" ->
                    LET d == JSONUnmarshalStruct(b, v1.EventHeartbeat, EventHeartbeatFields)
                    IN  [v |-> [v1 EXCEPT !.EventHeartbeat = d.v], err |-> d.err]
               [] OTHER -> [v |-> v1, err |-> ErrUnknownVariant]

UnmarshalJSON(v, b) ==
    LET obj == JSONUnmarshalMap(b)
        tag == TypeAssertString(obj.members, "type")
        v1 == [v EXCEPT !.Type = tag.s]
    IN  IF obj.err # "" THEN [v |-> v, err |-> obj.err]
        ELSE IF ~tag.ok THEN [v |-> v, err |-> ErrUnknownVariant]
        ELSE CASE tag.s = "Page Viewed" ->
                    LET d == JSONUnmarshalStruct(b, v1.EventPageViewed, EventPageViewedFields)
                    IN  [v |-> [v1 EXCEPT !.EventPageViewed = d.v], err |-> d.err]
               [] tag.s = "Order Completed" ->
                    LET d == JSONUnmarshalStruct(b, v1.EventOrderCompleted,
                                                 EventOrderCompletedFields)
                    IN  [v |-> [v1 EXCEPT !.EventOrderCompleted = d.v], err |-> d.err]
               [] tag.s = "Heartbeat" ->
                    LET d == JSONUnmarshalStruct(b, v1.EventHeartbeat, EventHeartbeatFields)
                    IN  [v |-> [v1 EXCEPT !.EventHeartbeat = d.v], err |-> d.err]
               [] OTHER -> [v |-> v1, err |-> ErrUnknownVariant]

(***************************************************************************)
(* Documents used as inputs                                                *)
(***************************************************************************)
TS1 == "2019-09-12T03:45:24+00:00"
TS2 == "2019-09-12T05:45:24+02:00"

DocPageViewed(u, ts, url) ==
    JObject(<<Member("type", JStr("Page Viewed")), Member("userId", JStr(u)),
              Member("timestamp", JStr(ts)), Member("url", JStr(url))>>)

DocOrderCompleted(u, ts, r) ==
    JObject(<<Member("type", JStr("Order Completed")), Member("userId", JStr(u)),
              Member("timestamp", JStr(ts)), Member("revenue", JNum(r))>>)

DocHeartbeat(u, ts) ==
    JObject(<<Member("timestamp", JStr(ts)), Member("type", JStr("Heartbeat")),
              Member("userId", JStr(u))>>)

\* {"type": "Order Completed", "userId": "bob", "revenue": "100"}
DocOrderBadRevenue ==
    JObject(<<Member("type", JStr("Order Completed")), Member("userId", JStr("bob")),
              Member("revenue", JStr("100"))>>)

\* the timestamp is no RFC 3339 string and comes before the other fields
DocOrderBadTime ==
    JObject(<<Member("type", JStr("Order Completed")), Member("timestamp", JStr("yesterday")),
              Member("userId", JStr("alice")), Member("revenue", JNum(10))>>)

\* a page view that also carries the field of another variant and a stray key
DocPageViewedExtra ==
    JObject(<<Member("type", JStr("Page Viewed")), Member("userId", JStr("alice")),
              Member("timestamp", JStr(TS1)), Member("url", JStr("/home")),
              Member("revenue", JNum(20)), Member("_id", JStr("5d79cbc3"))>>)

DocEmpty == JObject(<<>>)
DocTagOnly == JObject(<<Member("type", JStr("Heartbeat"))>>)
DocTagNumber == JObject(<<Member("type", JNum(10)), Member("userId", JStr("alice"))>>)
DocTagNull == JObject(<<Member("type", JNull), Member("userId", JStr("alice"))>>)
DocTagUnknown == JObject(<<Member("type", JStr("Signup")), Member("userId", JStr("alice"))>>)
DocTagWrongCase == JObject(<<Member("Type", JStr("Heartbeat")), Member("userId", JStr("alice"))>>)
DocOrderFoldedKey ==
    JObject(<<Member("type", JStr("Order Completed")), Member("userId", JStr("alice")),
              Member("timestamp", JStr(TS2)), Member("Revenue", JNum(3))>>)

CodecInputs ==
    { Malformed, Bytes(JArrayDoc, "compact"), Bytes(JNullDoc, "compact") } \cup
    { Bytes(d, "spaced") :
        d \in { DocEmpty, DocTagOnly, DocTagNumber, DocTagNull, DocTagUnknown, DocTagWrongCase,
                DocPageViewed("alice", TS1, "/home"), DocOrderCompleted("alice", TS2, 3),
                DocHeartbeat("alice", TS1), DocOrderBadRevenue, DocOrderBadTime,
                DocPageViewedExtra, DocOrderFoldedKey } }

\* Go values a caller may hold in an Event
InitTimes == {ZeroTime, T1plus2, TimeY10K}
InitTypes == {"Signup", EventTypePageViewed, EventTypeOrderCompleted, EventTypeHeartbeat}
InitUsers == {"", "alice"}
InitUrls == {"", "/home"}
InitRevenues == {0, 3}

InitEvents ==
    [Type : InitTypes,
     EventPageViewed : [Timestamp : InitTimes, Url : InitUrls, UserId : InitUsers],
     EventOrderCompleted : [Timestamp : InitTimes, UserId : InitUsers, Revenue : InitRevenues],
     EventHeartbeat : [Timestamp : InitTimes, UserId : InitUsers]]

(***************************************************************************)
(* The event schema and the validator                                      *)
(***************************************************************************)
\* event.jddf.json: a discriminator on "type" with one "properties" form per
\* variant; the forms list required properties and allow no others.
EventSchema ==
    [tag |-> "type",
     mapping |->
        [v \in {EventTypePageViewed, EventTypeOrderCompleted, EventTypeHeartbeat} |->
            CASE v = EventTypePageViewed ->
                    [k \in {"timestamp", "url", "userId"} |->
                        CASE k = "timestamp" -> "timestamp" [] OTHER -> "string"]
              [] v = EventTypeOrderCompleted ->
                    [k \in {"timestamp", "userId", "revenue"} |->
                        CASE k = "timestamp" -> "timestamp"
                          [] k = "revenue" -> "float64"
                          [] OTHER -> "string"]
              [] OTHER ->
                    [k \in {"timestamp", "userId"} |->
                        CASE k = "timestamp" -> "timestamp" [] OTHER -> "string"]]]

HasType(val, type) ==
    CASE type = "string" -> val.k = "string"
      [] type = "float64" -> val.k = "number"
      [] OTHER -> val.k = "string" /\ ParseRFC3339(val.s).ok

ValidationError(instancePath, schemaPath) ==
    [instancePath |-> instancePath, schemaPath |-> schemaPath]

\* The errors of an instance against a discriminator schema.
SchemaErrors(schema, doc) ==
    IF doc.t # "object" THEN {ValidationError(<<>>, <<"discriminator">>)}
    ELSE IF schema.tag \notin Keys(doc.members)
    THEN {ValidationError(<<>>, <<"discriminator", "tag">>)}
    ELSE IF Lookup(doc.members, schema.tag).k # "string"
    THEN {ValidationError(<<schema.tag>>, <<"discriminator", "tag">>)}
    ELSE IF Lookup(doc.members, schema.tag).s \notin DOMAIN schema.mapping
    THEN {ValidationError(<<schema.tag>>, <<"discriminator", "mapping">>)}
    ELSE LET tag == Lookup(doc.members, schema.tag).s
             props == schema.mapping[tag]
             at == <<"discriminator", "mapping", tag>>
         IN  { ValidationError(<<>>, at \o <<"properties", k>>) :
                    k \in DOMAIN props \ Keys(doc.members) }
             \cup
             { ValidationError(<<k>>, at \o <<"properties", k, "type">>) :
                    k \in {x \in DOMAIN props \cap Keys(doc.members) :
                              ~HasType(Lookup(doc.members, x), props[x])} }
             \cup
             { ValidationError(<<k>>, at) :
                    k \in Keys(doc.members) \ (DOMAIN props \cup {schema.tag}) }

\* validator.Validate(schema, instance): an error is returned only for a schema
\* that uses "ref", which the event schema does not.
Validate(schema, instance) ==
    [result |-> [Errors |-> SchemaErrors(schema, instance)], err |-> ""]

(***************************************************************************)
(* net/http: the ResponseWriter                                            *)
(***************************************************************************)
StatusOK == 200
StatusBadRequest == 400
StatusInternalServerError == 500

NoChunk == [kind |-> "none", msg |-> "", errors |-> {}, bytes |-> NoBytes, micros |-> 0]
ErrorText(msg) == [NoChunk EXCEPT !.kind = "error", !.msg = msg]
ErrorsJSON(errors) == [NoChunk EXCEPT !.kind = "errors", !.errors = errors]
PayloadText(b) == [NoChunk EXCEPT !.kind = "payload", !.bytes = b]
FloatText(micros) == [NoChunk EXCEPT !.kind = "float", !.micros = micros]

NewResponseWriter == [status |-> 0, body |-> <<>>]

\* w.WriteHeader(code): only the first call sets the status line.
WriteHeader(w, code) == IF w.status = 0 THEN [w EXCEPT !.status = code] ELSE w

\* w.Write(data): sends the header with 200 when none was written before.
Write(w, chunk) ==
    [status |-> IF w.status = 0 THEN StatusOK ELSE w.status, body |-> Append(w.body, chunk)]

\* What the client gets when the handler returns.
Finish(w) == IF w.status = 0 THEN [w EXCEPT !.status = StatusOK] ELSE w

(***************************************************************************)
(* The events table                                                        *)
(***************************************************************************)
ErrDB == "pq: connection refused"
ErrBodyRead == "unexpected EOF"

\* jsonb keeps one value per key, keys ordered by length and then bytewise.
JsonbKeyOrder == <<"_id", "url", "Type", "type", "userId", "Revenue", "revenue", "timestamp">>

RECURSIVE JsonbMembers(_, _)
JsonbMembers(members, i) ==
    IF i > Len(JsonbKeyOrder) THEN <<>>
    ELSE (IF JsonbKeyOrder[i] \in Keys(members)
          THEN <<Member(JsonbKeyOrder[i], Lookup(members, JsonbKeyOrder[i]))>>
          ELSE <<>>) \o JsonbMembers(members, i + 1)

ToJsonb(doc) == IF doc.t = "object" THEN JObject(JsonbMembers(doc.members, 1)) ELSE doc

\* payload->>key
JsonbText(row, key) ==
    IF row.t # "object" \/ key \notin Keys(row.members) THEN [null |-> TRUE, text |-> ""]
    ELSE LET val == Lookup(row.members, key)
         IN  CASE val.k = "string" -> [null |-> FALSE, text |-> val.s]
               [] val.k = "number" -> [null |-> FALSE, text |-> ToString(val.n)]
               [] OTHER -> [null |-> TRUE, text |-> ""]

\* Mutant: the statement replaces what the table holds.
ExecInsert_Overwrite(rows, b, dbFails) ==
    IF dbFails \/ ~b.wf THEN [rows |-> rows, err |-> ErrDB]
    ELSE [rows |-> <<ToJsonb(b.doc)>>, err |-> ""]

\* insert into events (payload) values ($1)
ExecInsert(rows, b, dbFails) ==
    IF dbFails \/ ~b.wf THEN [rows |-> rows, err |-> ErrDB]
    ELSE [rows |-> Append(rows, ToJsonb(b.doc)), err |-> ""]

\* Mutant: the query has no condition on the user.
SelectedRow_AnyUser(row, userID) ==
    /\ ~JsonbText(row, "type").null
    /\ JsonbText(row, "type").text = "Order Completed"

SelectedRow(row, userID) ==
    /\ ~JsonbText(row, "type").null
    /\ JsonbText(row, "type").text = "Order Completed"
    /\ ~JsonbText(row, "userId").null
    /\ JsonbText(row, "userId").text = userID

RECURSIVE SelectRows(_, _, _)
SelectRows(rows, userID, i) ==
    IF i > Len(rows) THEN <<>>
    ELSE (IF SelectedRow(rows[i], userID) THEN <<[Payload |-> Bytes(rows[i], "spaced")]>>
          ELSE <<>>) \o SelectRows(rows, userID, i + 1)

\* select payload from events where payload->>'type' = 'Order Completed' and
\* payload->>'userId' = $1
SelectPayloads(rows, userID, dbFails) ==
    IF dbFails THEN [dbEvents |-> <<>>, err |-> ErrDB]
    ELSE [dbEvents |-> SelectRows(rows, userID, 1), err |-> ""]

(***************************************************************************)
(* createEvent: POST /v1/events                                            *)
(***************************************************************************)
Outcome(w, rows, called) == [w |-> w, rows |-> rows, calls |-> called]

\* json.Unmarshal(buf, &eventRaw) with eventRaw an interface{}
JSONUnmarshalValue(b) ==
    IF b.wf THEN [val |-> b.doc, err |-> ""] ELSE [val |-> JNullDoc, err |-> ErrSyntax]

\* encoder.Encode(errors) on the ResponseWriter: marshals, then writes.
Encode(w, errors) == [w |-> Write(w, ErrorsJSON(errors)), err |-> ""]

\* Mutant: the error of the insert is not looked at.
createEventStore_IgnoreErr(w, b, rows, dbFails, called) ==
    LET ex == ExecInsert(rows, b, dbFails)
    IN  Outcome(Write(WriteHeader(w, StatusOK), PayloadText(b)), ex.rows,
                Append(called, "DB.ExecContext"))

\* Mutant: the response echoes the parsed-and-stored form instead of the buffer.
createEventStore_EchoStored(w, b, rows, dbFails, called) ==
    LET ex == ExecInsert(rows, b, dbFails)
    IN  IF ex.err # ""
        THEN Outcome(Write(WriteHeader(w, StatusInternalServerError), ErrorText(ex.err)),
                     ex.rows, Append(called, "DB.ExecContext"))
        ELSE Outcome(Write(WriteHeader(w, StatusOK),
                           PayloadText(Bytes(ex.rows[Len(ex.rows)], "spaced"))),
                     ex.rows, Append(called, "DB.ExecContext"))

\* The insert and the echo.
createEventStore(w, b, rows, dbFails, called) ==
    LET ex == ExecInsert(rows, b, dbFails)
    IN  IF ex.err # ""
        THEN Outcome(Write(WriteHeader(w, StatusInternalServerError), ErrorText(ex.err)),
                     ex.rows, Append(called, "DB.ExecContext"))
        ELSE Outcome(Write(WriteHeader(w, StatusOK), PayloadText(b)),
                     ex.rows, Append(called, "DB.ExecContext"))

\* Mutant: validation errors are reported but the handler does not return.
createEventValidate_NoReturn(w, b, eventRaw, rows, dbFails, called) ==
    LET vr == Validate(EventSchema, eventRaw)
        validationResult == vr.result
        reached == Append(called, "Validator.Validate")
    IN  IF Cardinality(validationResult.Errors) # 0
        THEN createEventStore(WriteHeader(Encode(w, validationResult.Errors).w,
                                          StatusBadRequest),
                              b, rows, dbFails, reached)
        ELSE createEventStore(w, b, rows, dbFails, reached)

\* The validation of the parsed body; the validator's error is dropped.
createEventValidate(w, b, eventRaw, rows, dbFails, called) ==
    LET vr == Validate(EventSchema, eventRaw)
        validationResult == vr.result
        reached == Append(called, "Validator.Validate")
    IN  IF Cardinality(validationResult.Errors) # 0
        THEN LET enc == Encode(w, validationResult.Errors)
             IN  IF enc.err # ""
                 THEN Outcome(Write(WriteHeader(enc.w, StatusInternalServerError),
                                    ErrorText(enc.err)), rows, reached)
                 ELSE Outcome(WriteHeader(enc.w, StatusBadRequest), rows, reached)
        ELSE createEventStore(w, b, rows, dbFails, reached)

\* Mutant: a body that is no JSON is answered 400 but handled further.
createEventParse_NoReturn(w, b, rows, dbFails, called) ==
    LET un == JSONUnmarshalValue(b)
        reached == Append(called, "json.Unmarshal")
    IN  IF un.err # ""
        THEN createEventValidate(Write(WriteHeader(w, StatusBadRequest), ErrorText(un.err)),
                                 b, un.val, rows, dbFails, reached)
        ELSE createEventValidate(w, b, un.val, rows, dbFails, reached)

\* The parse of the body as generic JSON.
createEventParse(w, b, rows, dbFails, called) ==
    LET un == JSONUnmarshalValue(b)
        reached == Append(called, "json.Unmarshal")
    IN  IF un.err # ""
        THEN Outcome(Write(WriteHeader(w, StatusBadRequest), ErrorText(un.err)), rows, reached)
        ELSE createEventValidate(w, b, un.val, rows, dbFails, reached)

\* ioutil.ReadAll(r.Body)
ReadAll(r) == IF r.fault = "read" THEN [buf |-> NoBytes, err |-> ErrBodyRead]
              ELSE [buf |-> r.body, err |-> ""]

createEvent(r, rows) ==
    LET w == NewResponseWriter
        rd == ReadAll(r)
    IN  IF rd.err # ""
        THEN Outcome(Write(WriteHeader(w, StatusInternalServerError), ErrorText(rd.err)),
                     rows, <<"ioutil.ReadAll">>)
        ELSE createEventParse(w, rd.buf, rows, r.fault = "db", <<"ioutil.ReadAll">>)

(***************************************************************************)
(* getLTV: GET /v1/ltv                                                     *)
(***************************************************************************)
\* fmt.Fprintf(w, "%f", sum): six decimals, the nearest and on a tie the even
\* one.  sum counts units of 1e-7; the result counts units of 1e-6.
FormatF(sum) ==
    LET q == sum \div 10
        r == sum % 10
    IN  IF r < 5 THEN q
        ELSE IF r > 5 THEN q + 1
        ELSE IF q % 2 = 0 THEN q ELSE q + 1

\* json.Unmarshal(payload, &events[i])
JSONUnmarshalEvent(b, v) == IF ~b.wf THEN [v |-> v, err |-> ErrSyntax] ELSE UnmarshalJSON(v, b)

\* Mutant: a payload that does not decode is skipped and the loop goes on.
RECURSIVE DecodeAll_SkipBad(_, _)
DecodeAll_SkipBad(dbEvents, i) ==
    IF i > Len(dbEvents) THEN [events |-> <<>>, err |-> "", called |-> <<>>]
    ELSE LET d == JSONUnmarshalEvent(dbEvents[i].Payload, ZeroEvent)
             rest == DecodeAll_SkipBad(dbEvents, i + 1)
         IN  [events |-> (IF d.err # "" THEN <<>> ELSE <<d.v>>) \o rest.events,
              err |-> "",
              called |-> <<"json.Unmarshal">> \o rest.called]

\* The first loop: every payload into a zero Event, stopping at the first error.
RECURSIVE DecodeAll(_, _)
DecodeAll(dbEvents, i) ==
    IF i > Len(dbEvents) THEN [events |-> <<>>, err |-> "", called |-> <<>>]
    ELSE LET d == JSONUnmarshalEvent(dbEvents[i].Payload, ZeroEvent)
             rest == DecodeAll(dbEvents, i + 1)
         IN  IF d.err # "" THEN [events |-> <<>>, err |-> d.err, called |-> <<"json.Unmarshal">>]
             ELSE [events |-> IF rest.err # "" THEN <<>> ELSE <<d.v>> \o rest.events,
                   err |-> rest.err,
                   called |-> <<"json.Unmarshal">> \o rest.called]

\* The second loop: sum += event.EventOrderCompleted.Revenue
RECURSIVE SumRevenue(_, _)
SumRevenue(evs, i) ==
    IF i > Len(evs) THEN 0
    ELSE evs[i].EventOrderCompleted.Revenue + SumRevenue(evs, i + 1)

\* Mutant: the error of the query is not looked at.
getLTV_IgnoreQueryErr(r, rows) ==
    LET w == NewResponseWriter
        userID == r.userID
        sel == SelectPayloads(rows, userID, r.fault = "db")
        dec == DecodeAll(sel.dbEvents, 1)
    IN  Outcome(Write(WriteHeader(w, StatusOK), FloatText(FormatF(SumRevenue(dec.events, 1)))),
                rows, <<"DB.SelectContext">>)

getLTV(r, rows) ==
    LET w == NewResponseWriter
        userID == r.userID
        sel == SelectPayloads(rows, userID, r.fault = "db")
        dec == DecodeAll(sel.dbEvents, 1)
    IN  IF sel.err # ""
        THEN Outcome(Write(WriteHeader(w, StatusInternalServerError), ErrorText(sel.err)),
                     rows, <<"DB.SelectContext">>)
        ELSE IF dec.err # ""
        THEN Outcome(Write(WriteHeader(w, StatusInternalServerError), ErrorText(dec.err)),
                     rows, <<"DB.SelectContext">> \o dec.called)
        ELSE Outcome(Write(WriteHeader(w, StatusOK),
                           FloatText(FormatF(SumRevenue(dec.events, 1)))),
                     rows, <<"DB.SelectContext">> \o dec.called)

(***************************************************************************)
(* Requests                                                                *)
(***************************************************************************)
RequestBodies ==
    { Malformed, Bytes(JArrayDoc, "compact") } \cup
    { Bytes(d, "spaced") :
        d \in { DocEmpty, DocTagUnknown, DocOrderBadRevenue, DocPageViewedExtra,
                DocOrderCompleted("alice", TS2, 3), DocOrderCompleted("alice", TS1, 20),
                DocOrderCompleted("bob", TS1, 10),
                DocPageViewed("alice", TS1, "/home"), DocHeartbeat("alice", TS2) } } \cup
    { Bytes(DocOrderCompleted("alice", TS2, 3), "compact") }

\* "" is the user id of a request without the userId parameter.
UserIDs == {"alice", "bob", ""}

\* What goes wrong around one request: nothing, the read of the body, or the
\* database.
Faults == {"none", "read", "db"}

NoRequest == [op |-> "none", body |-> NoBytes, userID |-> "", fault |-> "none"]

(***************************************************************************)
(* State                                                                   *)
(***************************************************************************)
NoCall == [op |-> "none", in |-> NoBytes, before |-> ZeroEvent, err |-> "", out |-> NoBytes]

\* The goroutines net/http runs handlers in, and one that serves nothing.
Conns == 1..MaxInFlight
IdleConn == [pc |-> "idle", req |-> NoRequest, w |-> NewResponseWriter, seen |-> 0]

ServerInit ==
    /\ events = <<>>
    /\ posted = <<>>
    /\ req = NoRequest
    /\ calls = <<>>
    /\ resp = NewResponseWriter
    /\ conns = [c \in Conns |-> IdleConn]

CodecIdle ==
    /\ ev = ZeroEvent
    /\ buf = NoBytes
    /\ src = ZeroEvent
    /\ cout = NoCall

(***************************************************************************)
(* The codec on its own: a caller holds any Event and any bytes            *)
(***************************************************************************)
CodecInit ==
    /\ ev \in InitEvents
    /\ buf = NoBytes
    /\ src = ZeroEvent
    /\ cout = NoCall
    /\ ServerInit

\* bytes, err := v.MarshalJSON()
Marshal ==
    LET r == MarshalJSON(ev)
    IN  /\ cout' = [op |-> "MarshalJSON", in |-> NoBytes, before |-> ev,
                    err |-> r.err, out |-> r.bytes]
        /\ buf' = r.bytes
        /\ src' = IF r.err = "" THEN ev ELSE ZeroEvent
        /\ UNCHANGED <<ev, serverVars>>

\* var v Event
NewTarget ==
    /\ ev' = ZeroEvent
    /\ cout' = [NoCall EXCEPT !.op = "var", !.before = ev]
    /\ UNCHANGED <<buf, src, serverVars>>

\* err := v.UnmarshalJSON(b)
Unmarshal(b) ==
    LET r == UnmarshalJSON(ev, b)
    IN  /\ ev' = r.v
        /\ cout' = [op |-> "UnmarshalJSON", in |-> b, before |-> ev,
                    err |-> r.err, out |-> NoBytes]
        /\ buf' = IF b = buf THEN buf ELSE NoBytes
        /\ src' = IF b = buf THEN src ELSE ZeroEvent
        /\ UNCHANGED serverVars

CodecNext ==
    \/ Marshal
    \/ NewTarget
    \/ \E b \in CodecInputs \cup {buf} : Unmarshal(b)

CodecSpec == CodecInit /\ [][CodecNext]_vars

(***************************************************************************)
(* The server: one request at a time                                       *)
(***************************************************************************)
Init == CodecIdle /\ ServerInit

Accepted(out) ==
    /\ out.w.status = StatusOK
    /\ Len(out.w.body) = 1
    /\ out.w.body[1].kind = "payload"

\* POST /v1/events
PostEvent(body, fault) ==
    LET r == [op |-> "createEvent", body |-> body, userID |-> "", fault |-> fault]
        out == createEvent(r, events)
    IN  /\ Len(out.rows) <= MaxEvents
        /\ req' = r
        /\ events' = out.rows
        /\ calls' = out.calls
        /\ resp' = Finish(out.w)
        /\ posted' = IF Accepted(out) THEN Append(posted, body) ELSE posted
        /\ UNCHANGED <<conns, codecVars>>

\* GET /v1/ltv?userId=userID
GetLTV(userID, fault) ==
    LET r == [op |-> "getLTV", body |-> NoBytes, userID |-> userID, fault |-> fault]
        out == getLTV(r, events)
    IN  /\ req' = r
        /\ events' = out.rows
        /\ calls' = out.calls
        /\ resp' = Finish(out.w)
        /\ UNCHANGED <<posted, conns, codecVars>>

Next ==
    \/ \E body \in RequestBodies, fault \in Faults : PostEvent(body, fault)
    \/ \E userID \in UserIDs, fault \in Faults \ {"read"} : GetLTV(userID, fault)

Spec == Init /\ [][Next]_vars

(***************************************************************************)
(* The server on a database that someone else writes to as well            *)
(***************************************************************************)
\* Rows "someone other than this service" may insert: no valid events.
ForeignPayloads == {DocOrderBadTime, DocOrderBadRevenue}

\* An insert into events that does not come from createEvent.
ForeignInsert(doc) ==
    /\ Len(events) < MaxEvents
    /\ events' = Append(events, ToJsonb(doc))
    /\ req' = [NoRequest EXCEPT !.op = "psql"]
    /\ calls' = <<>>
    /\ resp' = NewResponseWriter
    /\ UNCHANGED <<posted, conns, codecVars>>

SharedDBNext ==
    \/ \E body \in RequestBodies, fault \in Faults : PostEvent(body, fault)
    \/ \E userID \in UserIDs, fault \in Faults \ {"read"} : GetLTV(userID, fault)
    \/ \E doc \in ForeignPayloads : ForeignInsert(doc)

SharedDBSpec == Init /\ [][SharedDBNext]_vars

(***************************************************************************)
(* The server with requests in flight at the same time                     *)
(***************************************************************************)
\* net/http runs each handler in a goroutine of its own.  A handler touches
\* the table in one statement; all else it works on is local to the call (w,
\* r, buf, eventRaw, dbEvents, events, sum) or only read (s.EventSchema, s.DB).
ConcRequests ==
    { [op |-> "createEvent", body |-> b, userID |-> "", fault |-> f] :
        b \in { Malformed, Bytes(DocEmpty, "spaced"),
                Bytes(DocOrderCompleted("alice", TS2, 3), "spaced"),
                Bytes(DocOrderCompleted("bob", TS1, 10), "spaced") },
        f \in {"none", "db"} } \cup
    { [op |-> "createEvent", body |-> Malformed, userID |-> "", fault |-> "read"] } \cup
    { [op |-> "getLTV", body |-> NoBytes, userID |-> u, fault |-> "none"] :
        u \in {"alice", "bob"} } \cup
    { [op |-> "getLTV", body |-> NoBytes, userID |-> "alice", fault |-> "db"] }

Handler(r, rows) == IF r.op = "createEvent" THEN createEvent(r, rows) ELSE getLTV(r, rows)

StorageCalls == {"DB.ExecContext", "DB.SelectContext"}

\* Whether the handler gets to its statement on the table: what comes before
\* that statement does not look at the table.
ReachesStorage(r) ==
    LET out == Handler(r, <<>>)
    IN  \E i \in 1..Len(out.calls) : out.calls[i] \in StorageCalls

\* The server accepts a request and starts its handler.
Serve(c, r) ==
    /\ conns[c].pc = "idle"
    /\ conns' = [conns EXCEPT ![c] = [IdleConn EXCEPT !.pc = "running", !.req = r]]
    /\ UNCHANGED <<events, posted, req, calls, resp, codecVars>>

\* The handler runs up to its statement on the table, or to its return when it
\* returns before.
RunLocal(c) ==
    /\ conns[c].pc = "running"
    /\ conns' = [conns EXCEPT ![c] =
                    IF ReachesStorage(conns[c].req) THEN [@ EXCEPT !.pc = "storage"]
                    ELSE [@ EXCEPT !.pc = "answered",
                                   !.w = Finish(Handler(conns[c].req, <<>>).w),
                                   !.seen = Len(posted)]]
    /\ UNCHANGED <<events, posted, req, calls, resp, codecVars>>

\* The insert or the query, one atomic step on the table, and the rest of the
\* handler, which works on what that step returned.
StorageStep(c) ==
    LET r == conns[c].req
        out == Handler(r, events)
    IN  /\ conns[c].pc = "storage"
        /\ Len(out.rows) <= MaxEvents
        /\ events' = out.rows
        /\ posted' = IF r.op = "createEvent" /\ Accepted(out)
                      THEN Append(posted, r.body) ELSE posted
        /\ conns' = [conns EXCEPT ![c] = [@ EXCEPT !.pc = "answered",
                                                    !.w = Finish(out.w),
                                                    !.seen = Len(posted)]]
        /\ UNCHANGED <<req, calls, resp, codecVars>>

\* The client has the response; the goroutine ends.
Deliver(c) ==
    /\ conns[c].pc = "answered"
    /\ req' = conns[c].req
    /\ resp' = conns[c].w
    /\ calls' = <<>>
    /\ conns' = [conns EXCEPT ![c] = IdleConn]
    /\ UNCHANGED <<events, posted, codecVars>>

ConcNext ==
    \/ \E c \in Conns, r \in ConcRequests : Serve(c, r)
    \/ \E c \in Conns : RunLocal(c)
    \/ \E c \in Conns : StorageStep(c)
    \/ \E c \in Conns : Deliver(c)

ConcSpec == Init /\ [][ConcNext]_vars

(***************************************************************************)
(* Properties of the ingest handler                                        *)
(***************************************************************************)
IsPost == req.op = "createEvent"
IsGet == req.op = "getLTV"
Called(name) == \E i \in 1..Len(calls) : calls[i] = name
CalledBefore(a, b) == \E i, j \in 1..Len(calls) : i < j /\ calls[i] = a /\ calls[j] = b
BodyKinds == {resp.body[i].kind : i \in 1..Len(resp.body)}

\* The request body was read, is JSON, and the schema has errors for it.
SchemaInvalidPost ==
    /\ IsPost
    /\ req.fault # "read"
    /\ req.body.wf
    /\ SchemaErrors(EventSchema, req.body.doc) # {}

\* The request body was read, is JSON, and conforms to the schema.
SchemaValidPost ==
    /\ IsPost
    /\ req.fault # "read"
    /\ req.body.wf
    /\ SchemaErrors(EventSchema, req.body.doc) = {}

\* C1: a POST /v1/events whose body is JSON but has schema errors is answered
\* with status 400 and a non-empty JSON array of validation errors; never 200.
C1_SchemaInvalidIs400 ==
    SchemaInvalidPost =>
        /\ resp.status = StatusBadRequest
        /\ Len(resp.body) = 1
        /\ resp.body[1].kind = "errors"
        /\ resp.body[1].errors # {}

\* The revenue of the "Order Completed" events of a user among the request
\* bodies that were accepted, in units of 1e-7.
RECURSIVE PostedRevenue(_, _, _)
PostedRevenue(bodies, u, i) ==
    IF i > Len(bodies) THEN 0
    ELSE LET m == bodies[i].doc.members
         IN  (IF /\ Lookup(m, "type") = JStr("Order Completed")
                 /\ Lookup(m, "userId") = JStr(u)
              THEN Lookup(m, "revenue").n ELSE 0) + PostedRevenue(bodies, u, i + 1)

\* C2: after any accepted POSTs, a GET /v1/ltv?userId=u whose query succeeds is
\* answered 200 with the sum of the revenues of the accepted "Order Completed"
\* events of u.
C2_LTVIsSumOfPosted ==
    (IsGet /\ req.fault = "none") =>
        /\ resp.status = StatusOK
        /\ Len(resp.body) = 1
        /\ resp.body[1].kind = "float"
        /\ 10 * resp.body[1].micros = PostedRevenue(posted, req.userID, 1)

C5_MalformedIs400 ==
    (IsPost /\ req.fault # "read" /\ ~req.body.wf) =>
        /\ resp.status = StatusBadRequest
        /\ ~Called("Validator.Validate")
        /\ ~Called("DB.ExecContext")
        /\ calls = <<"ioutil.ReadAll", "json.Unmarshal">>

C5_Witness ==
    /\ IsPost
    /\ req.body = Malformed
    /\ req.fault = "none"
    /\ resp.status = StatusBadRequest
    /\ events # <<>>

\* C10: a failed insert is answered 500 without the echo of the payload, and a
\* failed query is answered 500 without a sum.
C10_StorageFailureIs500 ==
    /\ (IsPost /\ Called("DB.ExecContext") /\ req.fault = "db") =>
            /\ resp.status = StatusInternalServerError
            /\ BodyKinds = {"error"}
    /\ (IsGet /\ req.fault = "db") =>
            /\ resp.status = StatusInternalServerError
            /\ BodyKinds = {"error"}

C10_Witness ==
    /\ IsGet
    /\ req.fault = "db"
    /\ req.userID = "alice"
    /\ \E i \in 1..Len(events) : SelectedRow(events[i], "alice")
    /\ resp.status = StatusInternalServerError

(***************************************************************************)
(* Properties of the codec                                                 *)
(***************************************************************************)
KnownTags == {"Page Viewed", "Order Completed", "Heartbeat"}

\* The struct of the variant that the Type of an Event names.
VariantOf(e) ==
    CASE e.Type = "Page Viewed" -> e.EventPageViewed
      [] e.Type = "Order Completed" -> e.EventOrderCompleted
      [] OTHER -> e.EventHeartbeat

VariantKeys(tag) ==
    CASE tag = "Page Viewed" -> {"timestamp", "url", "userId"}
      [] tag = "Order Completed" -> {"timestamp", "userId", "revenue"}
      [] OTHER -> {"timestamp", "userId"}

OthersZero(e) ==
    /\ e.Type # "Page Viewed" => e.EventPageViewed = ZeroPageViewed
    /\ e.Type # "Order Completed" => e.EventOrderCompleted = ZeroOrderCompleted
    /\ e.Type # "Heartbeat" => e.EventHeartbeat = ZeroHeartbeat

\* A valid Event: a known tag, the fields of that variant holding values the
\* schema can express, the other variants unpopulated.
ValidEvent(e) ==
    /\ e.Type \in KnownTags
    /\ YearInRange(VariantOf(e).Timestamp)
    /\ OthersZero(e)

\* C6: MarshalJSON of a valid Event succeeds, and UnmarshalJSON of its output
\* into a fresh Event succeeds and yields an Event equal to the original.
C6_RoundTrip ==
    /\ (cout.op = "MarshalJSON" /\ ValidEvent(cout.before)) =>
            cout.err = "" /\ cout.out.wf
    /\ (/\ cout.op = "UnmarshalJSON"
        /\ buf.wf
        /\ cout.in = buf
        /\ cout.before = ZeroEvent
        /\ ValidEvent(src)) => (cout.err = "" /\ ev = src)

C6_Witness ==
    /\ cout.op = "UnmarshalJSON"
    /\ buf.wf
    /\ cout.in = buf
    /\ cout.before = ZeroEvent
    /\ ValidEvent(src)
    /\ src.Type = "Page Viewed"
    /\ src.EventPageViewed = [Timestamp |-> T1plus2, Url |-> "/home", UserId |-> "alice"]
    /\ ev = src

\* The "type" of a JSON object is absent, no string, or none of the known tags.
UnknownTagObject(b) ==
    /\ b.wf
    /\ b.doc.t = "object"
    /\ \/ "type" \notin Keys(b.doc.members)
       \/ Lookup(b.doc.members, "type").k # "string"
       \/ Lookup(b.doc.members, "type").s \notin KnownTags

\* C7: MarshalJSON of an Event with an unknown Type returns ErrUnknownVariant and
\* no bytes, and UnmarshalJSON of an object whose "type" is absent, no string or
\* unknown returns ErrUnknownVariant.
C7_UnknownTagFails ==
    /\ (cout.op = "MarshalJSON" /\ cout.before.Type \notin KnownTags) =>
            cout.err = ErrUnknownVariant /\ cout.out = NoBytes
    /\ (cout.op = "UnmarshalJSON" /\ UnknownTagObject(cout.in)) =>
            cout.err = ErrUnknownVariant

C7_Witness ==
    /\ cout.op = "UnmarshalJSON"
    /\ cout.in = Bytes(DocTagUnknown, "spaced")
    /\ cout.before.Type = "Page Viewed"
    /\ cout.err = ErrUnknownVariant

ExpectedMember(e, key) ==
    CASE key = "type" -> JStr(e.Type)
      [] key = "timestamp" -> JStr(FormatRFC3339(VariantOf(e).Timestamp))
      [] key = "userId" -> JStr(VariantOf(e).UserId)
      [] key = "url" -> JStr(VariantOf(e).Url)
      [] OTHER -> JNum(VariantOf(e).Revenue)

\* C8: for an Event with a known tag, the JSON of MarshalJSON has exactly the key
\* "type", equal to the Type, and the keys of that variant, with the values of
\* that variant's struct; what the other two structs hold changes neither the
\* output nor whether there is one.
C8_OnlyTheVariantsFields ==
    (cout.op = "MarshalJSON" /\ cout.before.Type \in KnownTags) =>
        IF cout.err = ""
        THEN LET m == cout.out.doc.members
             IN  /\ cout.out.wf
                 /\ cout.out.doc.t = "object"
                 /\ Keys(m) = {"type"} \cup VariantKeys(cout.before.Type)
                 /\ Len(m) = Cardinality(Keys(m))
                 /\ \A k \in Keys(m) : Lookup(m, k) = ExpectedMember(cout.before, k)
        ELSE ~YearInRange(VariantOf(cout.before).Timestamp)

C8_Witness ==
    /\ cout.op = "MarshalJSON"
    /\ cout.err = ""
    /\ cout.before.Type = "Heartbeat"
    /\ cout.before.EventHeartbeat = [Timestamp |-> T1plus2, UserId |-> ""]
    /\ cout.before.EventOrderCompleted = [Timestamp |-> TimeY10K, UserId |-> "alice", Revenue |-> 3]
    /\ cout.before.EventPageViewed.Url = "/home"

\* C9: after a successful UnmarshalJSON the Type is the tag of the input and the
\* structs of the other two variants are not populated, whatever the target held
\* before; stated here for the targets the claim names, a fresh Event and an
\* Event that holds one variant as a decode of that variant leaves it.
C9_UnionInvariantAfterDecode ==
    (/\ cout.op = "UnmarshalJSON"
     /\ cout.err = ""
     /\ (cout.before = ZeroEvent \/ ValidEvent(cout.before))) =>
        /\ ev.Type = Lookup(cout.in.doc.members, "type").s
        /\ OthersZero(ev)

(***************************************************************************)
(* Properties of the codec behind the validator                            *)
(***************************************************************************)
\* The calls of a getLTV that decoded n payloads.
DecodeCalls(n) == <<"DB.SelectContext">> \o [i \in 1..n |-> "json.Unmarshal"]

RightType(members, key) ==
    LET val == Lookup(members, key)
    IN  CASE key = "timestamp" -> val.k = "string" /\ ParseRFC3339(val.s).ok
          [] key = "revenue" -> val.k = "number"
          [] OTHER -> val.k = "string"

\* A JSON object with a known tag and every field of that variant, each of the
\* right type.
CompleteMessage(b) ==
    /\ b.wf
    /\ b.doc.t = "object"
    /\ ~UnknownTagObject(b)
    /\ \A key \in VariantKeys(Lookup(b.doc.members, "type").s) :
            key \in Keys(b.doc.members) /\ RightType(b.doc.members, key)

\* C12: UnmarshalJSON returns no error only for a JSON object with a known tag
\* and all the fields of that variant with the right types, and MarshalJSON
\* returns no error only with such a message as its output.
C12_OnlyValidMessages ==
    /\ (cout.op = "UnmarshalJSON" /\ cout.err = "") => CompleteMessage(cout.in)
    /\ (cout.op = "MarshalJSON" /\ cout.err = "") =>
            /\ cout.before.Type \in KnownTags
            /\ CompleteMessage(cout.out)

(***************************************************************************)
(* Properties of the LTV query                                             *)
(***************************************************************************)
\* A stored event is an "Order Completed" event of user u.
Matches(row, u) ==
    /\ row.t = "object"
    /\ {"type", "userId"} \subseteq Keys(row.members)
    /\ Lookup(row.members, "type") = JStr("Order Completed")
    /\ Lookup(row.members, "userId") = JStr(u)

\* The stored events without the ones that do not match.
RECURSIVE Matching(_, _, _)
Matching(rows, u, i) ==
    IF i > Len(rows) THEN <<>>
    ELSE (IF Matches(rows[i], u) THEN <<rows[i]>> ELSE <<>>) \o Matching(rows, u, i + 1)

\* C13: the response of a GET /v1/ltv?userId=u whose query succeeds is the one
\* the handler gives with only the stored "Order Completed" events of u in the
\* table, so no other event contributes; with no such event, and for a request
\* without userId, read as the user "", it is 200 with the sum 0.
C13_OnlyMatchingEvents ==
    (IsGet /\ req.fault = "none") =>
        /\ resp = Finish(getLTV(req, Matching(events, req.userID, 1)).w)
        /\ Len(SelectRows(events, req.userID, 1)) = Len(Matching(events, req.userID, 1))
        /\ Matching(events, req.userID, 1) = <<>> =>
                resp = [status |-> StatusOK, body |-> <<FloatText(0)>>]

C13_Witness ==
    /\ IsGet
    /\ req.fault = "none"
    /\ req.userID = "bob"
    /\ Len(events) = 2
    /\ Matches(events[1], "alice")
    /\ Matches(events[2], "bob")
    /\ resp = [status |-> StatusOK, body |-> <<FloatText(1)>>]

\* A request without the userId parameter, with events of named users stored.
C13_WitnessNoUser ==
    /\ IsGet
    /\ req.fault = "none"
    /\ req.userID = ""
    /\ \E i \in 1..Len(events) : Matches(events[i], "alice")
    /\ resp = [status |-> StatusOK, body |-> <<FloatText(0)>>]

(***************************************************************************)
(* Properties of the events table                                          *)
(***************************************************************************)
\* Two JSON documents are the same value: member order does not count.
SameJSON(a, b) ==
    /\ a.t = b.t
    /\ a.t = "object" =>
            /\ Keys(a.members) = Keys(b.members)
            /\ \A k \in Keys(a.members) : Lookup(a.members, k) = Lookup(b.members, k)

AppendOnlyStep ==
    /\ events' # events =>
            /\ req'.op = "createEvent"
            /\ req'.fault = "none"
            /\ resp' = [status |-> StatusOK, body |-> <<PayloadText(req'.body)>>]
            /\ Len(events') = Len(events) + 1
            /\ SubSeq(events', 1, Len(events)) = events
            /\ SameJSON(events'[Len(events')], req'.body.doc)
    /\ req'.op = "getLTV" => events' = events
    /\ (req'.op = "createEvent" /\ resp'.status \in {StatusBadRequest, StatusInternalServerError})
            => events' = events

\* C14: the stored events change only by an ingest answered 200 with the echo,
\* which appends exactly one event, the posted payload, and leaves the events
\* before it as they were; a GET and an ingest answered 400 or 500 change
\* nothing, and no step updates or deletes.
C14_AppendOnly == [][AppendOnlyStep]_vars

C14_Witness ==
    /\ IsPost
    /\ req.fault = "none"
    /\ resp = [status |-> StatusOK, body |-> <<PayloadText(req.body)>>]
    /\ Len(events) = 2
    /\ events[1] # events[2]
    /\ SameJSON(events[2], req.body.doc)
    /\ events[2] # req.body.doc

(***************************************************************************)
(* Properties of the handlers on an error                                  *)
(***************************************************************************)
CountCalls(name) == Cardinality({i \in 1..Len(calls) : calls[i] = name})

\* The payloads the query of the request selects that do not decode.
BadPayloads ==
    LET sel == SelectRows(events, req.userID, 1)
    IN  {i \in 1..Len(sel) : JSONUnmarshalEvent(sel[i].Payload, ZeroEvent).err # ""}

FirstBadPayload == CHOOSE i \in BadPayloads : \A j \in BadPayloads : i <= j

\* The call at which the handler of the request hit an error, "" without one.
FailedCall ==
    IF IsPost
    THEN CASE req.fault = "read" -> "ioutil.ReadAll"
           [] ~req.body.wf -> "json.Unmarshal"
           [] SchemaErrors(EventSchema, req.body.doc) # {} -> "Validator.Validate"
           [] req.fault = "db" -> "DB.ExecContext"
           [] OTHER -> ""
    ELSE IF IsGet
    THEN CASE req.fault = "db" -> "DB.SelectContext"
           [] BadPayloads # {} -> "json.Unmarshal"
           [] OTHER -> ""
    ELSE ""

UntaggedInput(b) == ~b.wf \/ b.doc.t # "object" \/ UnknownTagObject(b)

\* C16: when UnmarshalJSON returns an error for an input that is no JSON, has no
\* string "type" or has an unknown one, the Type and the three variant structs
\* of the target are what they were before the call.
C16_FailedDecodeKeepsTarget ==
    (cout.op = "UnmarshalJSON" /\ cout.err # "" /\ UntaggedInput(cout.in)) =>
        ev = cout.before

(***************************************************************************)
(* Properties of requests in flight at the same time                       *)
(***************************************************************************)
\* The events whose insert was complete when the storage step of c was taken.
InsertedBefore(c) == SubSeq(posted, 1, conns[c].seen)

EchoAnswered(c) ==
    /\ conns[c].pc = "answered"
    /\ conns[c].req.op = "createEvent"
    /\ conns[c].w = [status |-> StatusOK, body |-> <<PayloadText(conns[c].req.body)>>]

\* C17: for every interleaving, with the insert and the query atomic: the rows
\* are the accepted events, each once, in the order of their inserts; the event
\* of an ingest answered with the echo is the row its insert added; and a GET
\* whose query succeeds is answered 200 with the sum of the revenues of the
\* "Order Completed" events of the user whose insert was complete at its query.
C17_Interleavings ==
    /\ Len(events) = Len(posted)
    /\ \A i \in 1..Len(events) : events[i] = ToJsonb(posted[i].doc)
    /\ \A c \in Conns :
            EchoAnswered(c) =>
                /\ conns[c].seen < Len(events)
                /\ events[conns[c].seen + 1] = ToJsonb(conns[c].req.body.doc)
    /\ \A c, d \in Conns :
            (EchoAnswered(c) /\ EchoAnswered(d) /\ c # d) => conns[c].seen # conns[d].seen
    /\ \A c \in Conns :
            (/\ conns[c].pc = "answered"
             /\ conns[c].req.op = "getLTV"
             /\ conns[c].req.fault = "none") =>
                /\ conns[c].w.status = StatusOK
                /\ Len(conns[c].w.body) = 1
                /\ conns[c].w.body[1].kind = "float"
                /\ 10 * conns[c].w.body[1].micros =
                        PostedRevenue(InsertedBefore(c), conns[c].req.userID, 1)

====
